---- MODULE Spec2Model ----
(***************************************************************************)
(* Model of server.py (Into The Deluge): a script that changes to its own  *)
(* directory, registers the '.js' MIME type on                             *)
(* http.server.SimpleHTTPRequestHandler, prints two banner lines, opens a  *)
(* browser, binds a socketserver.TCPServer on PORT and serves until a      *)
(* KeyboardInterrupt.                                                      *)
(*                                                                         *)
(* The program counter pc names the statement of server.py that runs next. *)
(* An interrupt signal (SIGINT) is an environment event that may arrive at *)
(* any statement; Python raises KeyboardInterrupt in the main thread at    *)
(* the statement that is running.  The request handler is the standard     *)
(* library's SimpleHTTPRequestHandler, bound at server.py line 17; its     *)
(* operators below follow http/server.py and socketserver.py.              *)
(***************************************************************************)
EXTENDS Integers, Sequences, FiniteSets

VARIABLES
    pc,             \* statement of server.py that runs next
    cwd,            \* the process's working directory
    extensions_map, \* Handler.extensions_map, a class attribute
    mapWrites,      \* number of assignments made to extensions_map
    stdout,         \* lines printed
    stderr,         \* the traceback of an unhandled exception, or "none"
    browser,        \* outcome of webbrowser.open
    listener,       \* the listening socket: "none", "bound", "closed"
    closeCount,     \* number of server_close() calls
    bindResult,     \* "none", "ok", "failed"
    pendingInt,     \* a SIGINT has arrived and is not yet raised
    intCount,       \* SIGINTs that have arrived
    exc,            \* the exception propagating out of the with block
    caught,         \* the except clause of line 31 has caught an interrupt
    lateInt,        \* an interrupt was raised after that catch
    startupInt,     \* an interrupt was raised before serve_forever ran
    everServing,    \* serve_forever was entered
    exitStatus,     \* the process's exit status, -1 while it runs
    req,            \* the connection being handled, or NoReq
    resp,           \* the response to req, or NoResp
    opened          \* every file the handler has opened

vars == <<pc, cwd, extensions_map, mapWrites, stdout, stderr, browser, listener,
          closeCount, bindResult, pendingInt, intCount, exc, caught, lateInt,
          startupInt, everServing, exitStatus, req, resp, opened>>

-----------------------------------------------------------------------------
(* Bounds *)

\* longest request path, in segments
MaxPathLen == 2

\* interrupt signals that arrive in one run
MaxInterrupts == 2

-----------------------------------------------------------------------------
(* Program constants *)

\* the directory that holds server.py, and the directory the process starts in
ROOT == <<"srv">>

LaunchDir == <<"home">>

Banner1 == "Starting server at http://localhost:8000"

Banner2 == "Press Ctrl+C to stop the server"

Notice == "\nServer stopped."

-----------------------------------------------------------------------------
(* The file system: absolute paths as sequences of names. *)

Dirs == {<<>>, <<"srv">>, <<"srv", "sub">>, <<"home">>}

\* srv/secret exists but the server's user may not read it
Files == {<<"srv", "index.html">>, <<"srv", "app.js">>, <<"srv", "secret">>,
          <<"secret">>, <<"home", "app.js">>}

Readable == Files \ {<<"srv", "secret">>}

IsPrefix(p, q) == Len(p) <= Len(q) /\ SubSeq(q, 1, Len(p)) = p

UnderRoot(path) == IsPrefix(ROOT, path)

\* posixpath.splitext on the names of this file system
splitext(name) ==
    CASE name = "app.js"     -> ".js"
      [] name = "index.html" -> ".html"
      [] OTHER               -> ""

-----------------------------------------------------------------------------
(* Requests *)

Seg == {"..", "app.js", "sub", "secret"}

Methods == {"GET", "HEAD", "POST", "PUT", "DELETE"}

Paths == UNION {[1..n -> Seg] : n \in 0..MaxPathLen}

\* ok = FALSE is a request line that parse_request rejects
Requests ==
    UNION {{[method |-> m, segs |-> s, slash |-> t, ok |-> TRUE] :
               m \in Methods, t \in IF s = <<>> THEN {TRUE} ELSE BOOLEAN} :
           s \in Paths}
    \cup {[method |-> "GET", segs |-> <<>>, slash |-> TRUE, ok |-> FALSE]}

NoReq == [method |-> "none", segs |-> <<>>, slash |-> FALSE, ok |-> FALSE]

NoResp == [status |-> 0, ctype |-> "", file |-> <<>>, body |-> FALSE]

\* the connection was shut down without a response
Dropped == [status |-> -1, ctype |-> "", file |-> <<>>, body |-> FALSE]

InFlight == req # NoReq /\ resp = NoResp

Error(code) == [status |-> code, ctype |-> "text/html", file |-> <<>>, body |-> FALSE]

-----------------------------------------------------------------------------
(* http.server.SimpleHTTPRequestHandler, the Handler of line 17 *)

\* posixpath.normpath of an absolute path: '..' removes the component before
\* it, and is dropped at the top
RECURSIVE normpath(_, _)
normpath(stack, rest) ==
    IF rest = <<>> THEN stack
    ELSE IF Head(rest) = ".."
         THEN normpath(IF stack = <<>> THEN <<>> ELSE SubSeq(stack, 1, Len(stack) - 1),
                       Tail(rest))
         ELSE normpath(Append(stack, Head(rest)), Tail(rest))

IsSimpleName(word) == word \notin {".", ".."}

\* a translate_path that joins the request path to the directory and lets
\* the operating system resolve '..'
translate_path_Join(directory, segs) == normpath(<<>>, directory \o segs)

\* translate_path: normalise, drop what is not a simple name, join onto the
\* handler's directory
translate_path(directory, segs) ==
    directory \o SelectSeq(normpath(<<>>, segs), IsSimpleName)

\* where the operating system would resolve the request path joined to ROOT
OsResolve(segs) == normpath(<<>>, ROOT \o segs)

Escapes(segs) == ~UnderRoot(OsResolve(segs))

\* mimetypes.guess_type, the fallback of guess_type (the platform's table;
\* '.js' is text/javascript in current tables)
mimetypes_guess(ext) ==
    CASE ext = ".js"   -> "text/javascript"
      [] ext = ".html" -> "text/html"
      [] OTHER         -> ""

guess_type(map, path) ==
    LET ext == IF path = <<>> THEN "" ELSE splitext(path[Len(path)])
    IN  IF ext \in DOMAIN map THEN map[ext]
        ELSE IF mimetypes_guess(ext) # "" THEN mimetypes_guess(ext)
        ELSE "application/octet-stream"

\* the tail of send_head: the trailing-slash check, open(), the 200 response
send_file(map, path, slash, method) ==
    IF slash THEN Error(404)
    ELSE IF path \notin Readable THEN Error(404)
    ELSE [status |-> 200, ctype |-> guess_type(map, path), file |-> path,
          body |-> method = "GET"]

send_head(map, directory, r) ==
    LET path == translate_path(directory, r.segs)
        index == Append(path, "index.html")
    IN  IF path \in Dirs
        THEN IF ~r.slash
             THEN [status |-> 301, ctype |-> "", file |-> <<>>, body |-> FALSE]
             ELSE IF index \in Files
                  THEN send_file(map, index, FALSE, r.method)
                  ELSE [status |-> 200, ctype |-> "text/html", file |-> <<>>,
                        body |-> r.method = "GET"]
        ELSE send_file(map, path, r.slash, r.method)

\* a handle_one_request that serves every method as it serves GET
handle_one_request_AnyMethod(map, directory, r) ==
    IF ~r.ok THEN Error(400) ELSE send_head(map, directory, r)

\* handle_one_request: parse_request, then do_GET / do_HEAD when defined
handle_one_request(map, directory, r) ==
    IF ~r.ok THEN Error(400)
    ELSE IF r.method \notin {"GET", "HEAD"} THEN Error(501)
    ELSE send_head(map, directory, r)

-----------------------------------------------------------------------------
(* The script *)

DefaultMap == [e \in {".gz"} |-> "application/gzip"]

Init ==
    /\ pc = "chdir"
    /\ cwd = LaunchDir
    /\ extensions_map = DefaultMap
    /\ mapWrites = 0
    /\ stdout = <<>>
    /\ stderr = "none"
    /\ browser = "not_tried"
    /\ listener = "none"
    /\ closeCount = 0
    /\ bindResult = "none"
    /\ pendingInt = FALSE
    /\ intCount = 0
    /\ exc = "none"
    /\ caught = FALSE
    /\ lateInt = FALSE
    /\ startupInt = FALSE
    /\ everServing = FALSE
    /\ exitStatus = -1
    /\ req = NoReq
    /\ resp = NoResp
    /\ opened = {}

Running == pc # "exited" /\ ~pendingInt

\* line 15: os.chdir(os.path.dirname(os.path.abspath(__file__)))
Chdir ==
    /\ Running /\ pc = "chdir"
    /\ cwd' = ROOT
    /\ pc' = "extmap"
    /\ UNCHANGED <<extensions_map, mapWrites, stdout, stderr, browser, listener,
                   closeCount, bindResult, pendingInt, intCount, exc, caught,
                   lateInt, startupInt, everServing, exitStatus, req, resp, opened>>

\* line 20 with the key '.mjs' in place of '.js'
SetJsType_Mjs ==
    /\ Running /\ pc = "extmap"
    /\ extensions_map' = [e \in DOMAIN extensions_map \cup {".mjs"} |->
                            IF e = ".mjs" THEN "application/javascript"
                            ELSE extensions_map[e]]
    /\ mapWrites' = mapWrites + 1
    /\ pc' = "banner1"
    /\ UNCHANGED <<cwd, stdout, stderr, browser, listener, closeCount, bindResult,
                   pendingInt, intCount, exc, caught, lateInt, startupInt,
                   everServing, exitStatus, req, resp, opened>>

\* line 20: Handler.extensions_map['.js'] = 'application/javascript'
SetJsType ==
    /\ Running /\ pc = "extmap"
    /\ extensions_map' = [e \in DOMAIN extensions_map \cup {".js"} |->
                            IF e = ".js" THEN "application/javascript"
                            ELSE extensions_map[e]]
    /\ mapWrites' = mapWrites + 1
    /\ pc' = "banner1"
    /\ UNCHANGED <<cwd, stdout, stderr, browser, listener, closeCount, bindResult,
                   pendingInt, intCount, exc, caught, lateInt, startupInt,
                   everServing, exitStatus, req, resp, opened>>

\* lines 22 and 23: the two banner lines
BannerStart ==
    /\ Running /\ pc = "banner1"
    /\ stdout' = Append(stdout, Banner1)
    /\ pc' = "banner2"
    /\ UNCHANGED <<cwd, extensions_map, mapWrites, stderr, browser, listener,
                   closeCount, bindResult, pendingInt, intCount, exc, caught,
                   lateInt, startupInt, everServing, exitStatus, req, resp, opened>>

BannerStop ==
    /\ Running /\ pc = "banner2"
    /\ stdout' = Append(stdout, Banner2)
    /\ pc' = "browser"
    /\ UNCHANGED <<cwd, extensions_map, mapWrites, stderr, browser, listener,
                   closeCount, bindResult, pendingInt, intCount, exc, caught,
                   lateInt, startupInt, everServing, exitStatus, req, resp, opened>>

\* line 26: webbrowser.open(url).  It returns True or False, or raises; the
\* script neither reads the result nor guards the call.
OpenBrowser ==
    /\ Running /\ pc = "browser"
    /\ \E outcome \in {"opened", "failed", "raised"} :
          /\ browser' = outcome
          /\ IF outcome = "raised"
             THEN /\ pc' = "exited"
                  /\ stderr' = "webbrowser.Error"
                  /\ exitStatus' = 1
             ELSE /\ pc' = "bind"
                  /\ UNCHANGED <<stderr, exitStatus>>
    /\ UNCHANGED <<cwd, extensions_map, mapWrites, stdout, listener, closeCount,
                   bindResult, pendingInt, intCount, exc, caught, lateInt,
                   startupInt, everServing, req, resp, opened>>

\* a bind whose failure is swallowed: the script goes on to serve_forever
BindStep_Ignore(portFree) ==
    /\ listener' = IF portFree THEN "bound" ELSE "none"
    /\ bindResult' = IF portFree THEN "ok" ELSE "failed"
    /\ pc' = "try"
    /\ UNCHANGED <<closeCount, stderr, exitStatus>>

\* line 28: socketserver.TCPServer(("", PORT), Handler) and __enter__.
\* TCPServer.__init__ closes the socket and re-raises when server_bind fails.
BindStep(portFree) ==
    IF portFree
    THEN /\ listener' = "bound"
         /\ bindResult' = "ok"
         /\ pc' = "try"
         /\ UNCHANGED <<closeCount, stderr, exitStatus>>
    ELSE /\ listener' = "closed"
         /\ closeCount' = closeCount + 1
         /\ bindResult' = "failed"
         /\ stderr' = "OSError"
         /\ exitStatus' = 1
         /\ pc' = "exited"

Bind ==
    /\ Running /\ pc = "bind"
    /\ \E portFree \in BOOLEAN : BindStep(portFree)
    /\ UNCHANGED <<cwd, extensions_map, mapWrites, stdout, browser, pendingInt,
                   intCount, exc, caught, lateInt, startupInt, everServing, req,
                   resp, opened>>

\* lines 29 and 30: enter the try block and call httpd.serve_forever()
ServeForever ==
    /\ Running /\ pc = "try"
    /\ pc' = "serve_forever"
    /\ everServing' = TRUE
    /\ UNCHANGED <<cwd, extensions_map, mapWrites, stdout, stderr, browser,
                   listener, closeCount, bindResult, pendingInt, intCount, exc,
                   caught, lateInt, startupInt, exitStatus, req, resp, opened>>
-----------------------------------------------------------------------------
(* socketserver.BaseServer.serve_forever, running inside the try of line 29 *)

\* selector.select() reports a connection; get_request() accepts it
AcceptRequest ==
    /\ Running /\ pc = "serve_forever"
    /\ req = NoReq
    /\ \E r \in Requests : req' = r
    /\ resp' = NoResp
    /\ UNCHANGED <<pc, cwd, extensions_map, mapWrites, stdout, stderr, browser,
                   listener, closeCount, bindResult, pendingInt, intCount, exc,
                   caught, lateInt, startupInt, everServing, exitStatus, opened>>

\* process_request: the handler's directory is os.getcwd() when it is built
HandleRequest ==
    /\ Running /\ pc = "serve_forever"
    /\ InFlight
    /\ LET r == handle_one_request(extensions_map, cwd, req)
       IN  /\ resp' = r
           /\ opened' = IF r.file # <<>> THEN opened \cup {r.file} ELSE opened
    /\ UNCHANGED <<req, pc, cwd, extensions_map, mapWrites, stdout, stderr, browser,
                   listener, closeCount, bindResult, pendingInt, intCount, exc,
                   caught, lateInt, startupInt, everServing, exitStatus>>

\* a serve loop that lets the handler's exception out of serve_forever
HandlerError_Fatal ==
    /\ Running /\ pc = "serve_forever"
    /\ InFlight
    /\ resp' = Dropped
    /\ pc' = "exit_with"
    /\ exc' = "Exception"
    /\ UNCHANGED <<req, cwd, extensions_map, mapWrites, stdout, stderr, browser,
                   listener, closeCount, bindResult, pendingInt, intCount,
                   caught, lateInt, startupInt, everServing, exitStatus, opened>>

\* the handler raises an Exception (the client hung up): _handle_request_noblock
\* calls handle_error and shutdown_request, and the loop goes on
HandlerError ==
    /\ Running /\ pc = "serve_forever"
    /\ InFlight
    /\ resp' = Dropped
    /\ UNCHANGED <<req, pc, cwd, extensions_map, mapWrites, stdout, stderr, browser,
                   listener, closeCount, bindResult, pendingInt, intCount, exc,
                   caught, lateInt, startupInt, everServing, exitStatus, opened>>

\* shutdown_request: the connection is closed once it was answered or dropped
ShutdownRequest ==
    /\ Running /\ pc = "serve_forever"
    /\ req # NoReq /\ resp # NoResp
    /\ req' = NoReq
    /\ resp' = NoResp
    /\ UNCHANGED <<pc, cwd, extensions_map, mapWrites, stdout, stderr, browser,
                   listener, closeCount, bindResult, pendingInt, intCount, exc,
                   caught, lateInt, startupInt, everServing, exitStatus, opened>>

-----------------------------------------------------------------------------
(* Interrupts *)

\* SIGINT arrives; a signal that arrives while one is pending merges with it
Interrupt ==
    /\ pc # "exited"
    /\ ~pendingInt
    /\ intCount < MaxInterrupts
    /\ pendingInt' = TRUE
    /\ intCount' = intCount + 1
    /\ UNCHANGED <<pc, cwd, extensions_map, mapWrites, stdout, stderr, browser,
                   listener, closeCount, bindResult, exc, caught, lateInt,
                   startupInt, everServing, exitStatus, req, resp, opened>>

StartupPcs == {"chdir", "extmap", "banner1", "banner2", "browser", "bind"}

\* no except clause: an interrupt in serve_forever leaves through __exit__
HandlerOf_NoExcept(p) ==
    IF p \in StartupPcs THEN "none" ELSE "exit_with"

\* a try block around the whole script
HandlerOf_TryAll(p) ==
    IF p \in StartupPcs \/ p = "serve_forever" THEN "except" ELSE "exit_with"

\* Where an exception raised at statement p goes.  Lines 15 to 28 have no
\* handler; the try of line 29 covers serve_forever only; everywhere else
\* inside the with block the exception leaves through __exit__.
HandlerOf(p) ==
    IF p \in StartupPcs THEN "none"
    ELSE IF p = "serve_forever" THEN "except"
    ELSE "exit_with"

\* KeyboardInterrupt is raised at the running statement.  When the except
\* clause of line 31 catches it, the connection in hand is shut down.
RaiseInterrupt ==
    /\ pc # "exited"
    /\ pendingInt
    /\ pendingInt' = FALSE
    /\ startupInt' = (startupInt \/ ~everServing)
    /\ lateInt' = (lateInt \/ caught)
    /\ IF HandlerOf(pc) = "none"
       THEN /\ pc' = "exited"
            /\ stderr' = "KeyboardInterrupt"
            /\ exitStatus' = 130
            /\ UNCHANGED <<exc, caught, req, resp>>
       ELSE IF HandlerOf(pc) = "except"
       THEN /\ pc' = "except"
            /\ caught' = TRUE
            /\ req' = NoReq
            /\ resp' = NoResp
            /\ UNCHANGED <<stderr, exitStatus, exc>>
       ELSE /\ pc' = "exit_with"
            /\ exc' = "KeyboardInterrupt"
            /\ UNCHANGED <<stderr, exitStatus, caught, req, resp>>
    /\ UNCHANGED <<cwd, extensions_map, mapWrites, stdout, browser, listener,
                   closeCount, bindResult, intCount, everServing, opened>>

\* line 32: print("\nServer stopped.")
ServerStopped ==
    /\ Running /\ pc = "except"
    /\ stdout' = Append(stdout, Notice)
    /\ pc' = "exit_with"
    /\ UNCHANGED <<cwd, extensions_map, mapWrites, stderr, browser, listener,
                   closeCount, bindResult, pendingInt, intCount, exc, caught,
                   lateInt, startupInt, everServing, exitStatus, req, resp, opened>>

\* no with statement: nothing calls server_close()
ExitWith_NoClose ==
    /\ Running /\ pc = "exit_with"
    /\ pc' = "exited"
    /\ IF exc = "none"
       THEN /\ exitStatus' = 0
            /\ UNCHANGED stderr
       ELSE /\ exitStatus' = 130
            /\ stderr' = exc
    /\ UNCHANGED <<cwd, extensions_map, mapWrites, stdout, browser, bindResult,
                   pendingInt, intCount, exc, caught, lateInt, startupInt,
                   everServing, req, resp, opened, listener, closeCount>>

\* leaving the with block of line 28: __exit__ calls server_close(); the script
\* ends, or the propagating exception ends it
ExitWith ==
    /\ Running /\ pc = "exit_with"
    /\ listener' = "closed"
    /\ closeCount' = closeCount + 1
    /\ pc' = "exited"
    /\ IF exc = "none"
       THEN /\ exitStatus' = 0
            /\ UNCHANGED stderr
       ELSE /\ exitStatus' = 130
            /\ stderr' = exc
    /\ UNCHANGED <<cwd, extensions_map, mapWrites, stdout, browser, bindResult,
                   pendingInt, intCount, exc, caught, lateInt, startupInt,
                   everServing, req, resp, opened>>

Next ==
    \/ Chdir
    \/ SetJsType
    \/ BannerStart
    \/ BannerStop
    \/ OpenBrowser
    \/ Bind
    \/ ServeForever
    \/ AcceptRequest
    \/ HandleRequest
    \/ HandlerError
    \/ ShutdownRequest
    \/ Interrupt
    \/ RaiseInterrupt
    \/ ServerStopped
    \/ ExitWith

Spec == Init /\ [][Next]_vars

\* The interpreter runs the main thread's next statement and raises a pending
\* signal; connections and signals come from outside and need not come.
FairSpec ==
    /\ Spec
    /\ WF_vars(Chdir) /\ WF_vars(SetJsType) /\ WF_vars(BannerStart)
    /\ WF_vars(BannerStop) /\ WF_vars(OpenBrowser) /\ WF_vars(Bind)
    /\ WF_vars(ServeForever) /\ WF_vars(HandleRequest \/ HandlerError)
    /\ WF_vars(ShutdownRequest)
    /\ WF_vars(RaiseInterrupt) /\ WF_vars(ServerStopped) /\ WF_vars(ExitWith)

-----------------------------------------------------------------------------
(* Properties *)

NoticeCount == Cardinality({i \in DOMAIN stdout : stdout[i] = Notice})

Handled == req # NoReq /\ resp # NoResp /\ resp # Dropped

Serving == pc = "serve_forever"

Crashed == pc = "exited" /\ exitStatus # 0

\* C6: when the bind fails, startup is aborted with the OSError's traceback and
\* a non-zero status; the process never enters serve_forever, never takes or
\* answers a request, opens no file and does not print the shutdown notice.
C6_BindFailureFatal ==
    bindResult = "failed" =>
        /\ Crashed
        /\ stderr = "OSError"
        /\ listener # "bound"
        /\ ~everServing
        /\ req = NoReq /\ resp = NoResp /\ opened = {}
        /\ NoticeCount = 0

C6_Witness == bindResult = "failed" /\ pc = "exited" /\ browser = "opened"

C10_NoticeOnlyAfterServing ==
    /\ NoticeCount <= 1
    /\ NoticeCount = 1 => bindResult = "ok" /\ everServing /\ caught
    /\ startupInt =>
          /\ ~everServing /\ ~Serving
          /\ NoticeCount = 0
          /\ pc \in {"exit_with", "exited"}
          /\ pc = "exited" => exitStatus = 130 /\ stderr = "KeyboardInterrupt"

C10_Witness == startupInt /\ pc = "exited" /\ bindResult = "ok"
\* the request path ends in '.js'
JsPath(r) ==
    r.segs # <<>> /\ ~r.slash /\ splitext(r.segs[Len(r.segs)]) = ".js"

C7_JsServed ==
    (Handled /\ JsPath(req) /\ resp.status = 200) =>
        resp.ctype = "application/javascript"

C7_MapFixedWhileServing ==
    /\ mapWrites <= 1
    /\ (everServing \/ pc \in StartupPcs \ {"chdir", "extmap"}) =>
          /\ mapWrites = 1
          /\ ".js" \in DOMAIN extensions_map
          /\ extensions_map[".js"] = "application/javascript"
    /\ (req # NoReq \/ resp # NoResp \/ opened # {}) => mapWrites = 1

\* C7: extensions_map is assigned once, by line 20, before any request is
\* taken; no later step changes it; and every 200 response to a path that ends
\* in '.js' has the content type application/javascript.
C7_JsContentType ==
    /\ [](C7_MapFixedWhileServing /\ C7_JsServed)
    /\ [][pc # "extmap" => extensions_map' = extensions_map]_vars

C7_Witness ==
    /\ Handled /\ JsPath(req) /\ resp.status = 200
    /\ resp.file = <<"srv", "app.js">>
    /\ resp.ctype = "application/javascript"

\* C2 as claimed: with the port free and no interrupt, a webbrowser.open that
\* fails, by returning False or by raising, never ends the process with an
\* error, so the run goes on to bind and serve.
C2_BrowserFailureHarmless ==
    (browser \in {"failed", "raised"} /\ intCount = 0 /\ bindResult # "failed") =>
        ~Crashed /\ stderr = "none"

\* C8 as claimed: the browser is opened only once the listener is bound, so
\* never in a run whose bind fails.
C8_BrowserAfterBind ==
    browser # "not_tried" => bindResult = "ok"
GetOrHead(r) == r.ok /\ r.method \in {"GET", "HEAD"}

\* the file-system path the handler resolves the request to
Target == translate_path(cwd, req.segs)

RootFiles == {f \in Files : UnderRoot(f)}

ErrorStatusOk(unreadable, unsupported) ==
    /\ ~req.ok => resp.status = 400
    /\ (req.ok /\ req.method \notin {"GET", "HEAD"}) => resp.status = unsupported
    /\ (GetOrHead(req) /\ Target \notin Dirs /\ Target \notin Files) =>
          resp.status = 404
    /\ (GetOrHead(req) /\ Target \in Files \ Readable /\ ~req.slash) =>
          resp.status = unreadable

RequestStepKeepsServing ==
    /\ Serving => listener = "bound" /\ exitStatus = -1 /\ stderr = "none"
    /\ Handled => Serving

C1_CleanUnlessInterruptedAgain ==
    /\ caught => ~Serving /\ ~InFlight
    /\ (caught /\ pc = "exited") =>
          /\ listener = "closed"
          /\ ~lateInt => exitStatus = 0 /\ stderr = "none" /\ NoticeCount = 1

====
